---- MODULE Spec2Model ----
(***************************************************************************)
(* Model of the workflow / field / prompt backend (src/main.py,            *)
(* src/models.py, src/services.py).                                        *)
(*                                                                         *)
(* The store (the hosted database behind src/database.py) is three tables  *)
(* kept as sequences of rows in insertion order.  Every request is a       *)
(* process whose steps are the handler's code between two external calls   *)
(* (a store round trip or the generation call); requests interleave at     *)
(* that granularity, which covers several server processes sharing the     *)
(* store as well as one event loop.                                        *)
(*                                                                         *)
(* Text is a sequence of one-character strings so that str.strip() is      *)
(* computed, not assumed.  An identifier in a URL is a text with a form:   *)
(* uuid.UUID() accepts several spellings of one value and rejects others.  *)
(***************************************************************************)
EXTENDS Integers, Sequences, FiniteSets, TLC

VARIABLES workflows, fields, prompts, fieldSeq, apiKey, req

vars == <<workflows, fields, prompts, fieldSeq, apiKey, req>>

store == <<workflows, fields, prompts, fieldSeq>>

(***************************************************************************)
(* Bounds of the model.                                                    *)
(***************************************************************************)
NumRequests == 2
MaxFields == 3
MaxPrompts == 2

Requests == 1..NumRequests

(***************************************************************************)
(* HTTP status codes used by the handlers.                                 *)
(***************************************************************************)
HTTP_200_OK == 200
HTTP_201_CREATED == 201
HTTP_400_BAD_REQUEST == 400
HTTP_404_NOT_FOUND == 404
HTTP_409_CONFLICT == 409
HTTP_500_INTERNAL_SERVER_ERROR == 500
\* FastAPI's answer to a body that fails a pydantic model's validation.
HTTP_422_UNPROCESSABLE_ENTITY == 422

(***************************************************************************)
(* Text and str.strip().                                                   *)
(***************************************************************************)
RECURSIVE LStrip(_)
LStrip(s) == IF s # <<>> /\ Head(s) = " " THEN LStrip(Tail(s)) ELSE s

RECURSIVE RStrip(_)
RStrip(s) ==
    IF s # <<>> /\ s[Len(s)] = " " THEN RStrip(SubSeq(s, 1, Len(s) - 1)) ELSE s

Strip(s) == RStrip(LStrip(s))

(***************************************************************************)
(* uuid.UUID(text) and str(uuid).  A uuid value is a positive integer; 0   *)
(* stands for "no value".  A text spells a value canonically, spells it in *)
(* another form uuid.UUID() accepts (braces, urn:uuid:, no hyphens), or is *)
(* not a uuid at all.                                                      *)
(***************************************************************************)
Canon(u) == [form |-> "canonical", val |-> u]

UUIDParses(t) == t.form \in {"canonical", "braced"}

UUIDValue(t) == t.val

UUIDStr(u) == Canon(u)

NoText == [form |-> "garbage", val |-> 0]

(***************************************************************************)
(* src/models.py: the pydantic create models.  A body that fails one of    *)
(* these never reaches the handler.                                        *)
(***************************************************************************)
valid_types == <<"text", "number", "boolean", "date", "email", "url", "json">>

InSeq(x, s) == \E k \in 1..Len(s) : s[k] = x

\* Field(..., min_length=1) followed by the validator's "if not v.strip()".
NonEmptyText(v) == Len(v) >= 1 /\ Strip(v) # <<>>

validate_name(v) == NonEmptyText(v)

\* The validator comparing without regard to case.
validate_data_type_any_case(v) == InSeq(v, valid_types) \/ v = "Text"

validate_data_type(v) == InSeq(v, valid_types)

validate_prompt_template(v) == NonEmptyText(v)

validate_user_input(v) == NonEmptyText(v)

WorkflowCreateValid(in) == validate_name(in.name)

FieldCreateValid(in) ==
    /\ UUIDParses(in.body_workflow_id)
    /\ validate_name(in.name)
    /\ validate_data_type(in.data_type)

PromptCreateValid(in) ==
    /\ UUIDParses(in.prompt_field_id)
    /\ validate_prompt_template(in.prompt_template)

WorkflowExecutionRequestValid(in) == validate_user_input(in.user_input)

(***************************************************************************)
(* The store: rows and the keyed reads the handlers issue.                 *)
(***************************************************************************)
WorkflowRow(n, name) == [id |-> UUIDStr(n), name |-> name]

FieldRow(n, wf, name, dt) ==
    [id |-> UUIDStr(n), workflow_id |-> wf, name |-> name, data_type |-> dt]

PromptRow(n, fid, tmpl) ==
    [id |-> UUIDStr(n), field_id |-> fid, prompt_template |-> tmpl]

SelectWorkflows(idText) == SelectSeq(workflows, LAMBDA w : w.id = idText)

SelectFields(wfText) == SelectSeq(fields, LAMBDA f : f.workflow_id = wfText)

SelectPrompts(fidText) == SelectSeq(prompts, LAMBDA p : p.field_id = fidText)

\* The delete issued without its eq("id", field_id) filter.
DeleteFieldUnfiltered(fidText) == <<>>

DeleteField(fidText) == SelectSeq(fields, LAMBDA f : f.id # fidText)

\* The uniqueness constraint on workflows.name.
NameTaken(name) == \E k \in 1..Len(workflows) : workflows[k].name = name

\* A field of the same workflow with the same name: the store may or may
\* may not refuse it (the handler expects that it can).
FieldNameTaken(wfText, name) ==
    \E k \in 1..Len(fields) :
        fields[k].workflow_id = wfText /\ fields[k].name = name

(***************************************************************************)
(* A request: what was received and the handler's local variables.         *)
(***************************************************************************)
NoInput ==
    [workflow_id |-> NoText, name |-> <<>>, body_workflow_id |-> NoText,
     data_type |-> "", prompt_field_id |-> NoText, prompt_template |-> <<>>,
     user_input |-> <<>>]

Fresh ==
    [kind |-> "none", pc |-> "idle", in |-> NoInput,
     workflow_uuid |-> 0, workflow_result |-> <<>>, field_id |-> NoText,
     flds |-> <<>>, i |-> 0, prompts_result |-> <<>>, tree |-> <<>>,
     field_results |-> <<>>, successful_executions |-> 0,
     failed_executions |-> 0, total_fields |-> 0,
     status |-> 0, detail |-> "", cause |-> "",
     \* Bookkeeping the properties read: the store round trips issued, what
     \* the store and the generation API answered inside the loop, and the
     \* requests that had been answered when this one arrived.
     store_calls |-> 0, prompt_counts |-> <<>>, generate_calls |-> <<>>,
     after |-> {}]

\* detail is the response's detail without the f-string's str(e), which is
\* kept in cause.
Respond(q, x) ==
    [q EXCEPT !.pc = "done", !.status = x.status, !.detail = x.detail,
              !.cause = x.cause]

Answer(st, msg, why) == [status |-> st, detail |-> msg, cause |-> why]

Arrive(r, k) ==
    [req[r] EXCEPT !.kind = k, !.after = {o \in DOMAIN req : req[o].pc = "done"}]

\* RequestValidationError: the body failed its pydantic model.
Invalid == Answer(HTTP_422_UNPROCESSABLE_ENTITY, "validation error", "")

Called(q) == [q EXCEPT !.store_calls = @ + 1]

Put(r, q) == req' = [req EXCEPT ![r] = q]

(***************************************************************************)
(* What a store round trip can do besides answering: raise.  The text of   *)
(* a uniqueness violation is the one the handlers look for.                *)
(***************************************************************************)
DuplicateKeyError == "duplicate key value violates unique constraint"
ConnectionError == "connection error"

\* "duplicate key value" in str(e).lower()
MentionsDuplicateKey(text) == text = DuplicateKeyError

ReadOutcomes == {"ok", "raise"}
InsertOutcomes == {"ok", "empty", "raise"}

(***************************************************************************)
(* POST /workflows/  (create_workflow)                                     *)
(***************************************************************************)
\* The except clause without its duplicate-key branch.
create_workflow_except_unclassified(text) ==
    Answer(HTTP_500_INTERNAL_SERVER_ERROR, "Database error", text)

\* The handler's single except clause: it also catches its own
\* HTTPException, whose text never mentions a duplicate key.
create_workflow_except(text) ==
    IF MentionsDuplicateKey(text)
    THEN Answer(HTTP_409_CONFLICT, "A workflow with this name already exists", "")
    ELSE Answer(HTTP_500_INTERNAL_SERVER_ERROR, "Database error", text)

ReceiveCreateWorkflow(r, names) ==
    /\ req[r].pc = "idle"
    /\ \E n \in names :
         LET q == [Arrive(r, "create_workflow") EXCEPT !.in.name = n] IN
         IF WorkflowCreateValid(q.in)
         THEN Put(r, [q EXCEPT !.pc = "cw_insert"])
         ELSE Put(r, Respond(q, Invalid))
    /\ UNCHANGED <<store, apiKey>>

CreateWorkflowInsert(r) ==
    /\ req[r].pc = "cw_insert"
    /\ LET q == Called(req[r])
           name == Strip(q.in.name)
       IN \E o \in InsertOutcomes :
            IF o = "raise"
            THEN /\ Put(r, Respond(q, create_workflow_except(ConnectionError)))
                 /\ UNCHANGED workflows
            ELSE IF NameTaken(name)
            THEN /\ Put(r, Respond(q, create_workflow_except(DuplicateKeyError)))
                 /\ UNCHANGED workflows
            ELSE IF o = "empty"
            THEN /\ Put(r, Respond(q, create_workflow_except(
                                           "500: Failed to create workflow")))
                 /\ UNCHANGED workflows
            ELSE /\ workflows' = Append(workflows, WorkflowRow(Len(workflows) + 1, name))
                 /\ Put(r, Respond([q EXCEPT !.workflow_result =
                                        <<WorkflowRow(Len(workflows) + 1, name)>>],
                                   Answer(HTTP_201_CREATED, "", "")))
    /\ UNCHANGED <<fields, prompts, fieldSeq, apiKey>>

(***************************************************************************)
(* The "except HTTPException: raise / except Exception" pair that closes   *)
(* get_workflow, create_field_with_prompt and execute_workflow.            *)
(***************************************************************************)
HTTPExc(st, msg) == [http |-> TRUE, status |-> st, text |-> msg]
OtherExc(msg) == [http |-> FALSE, status |-> 0, text |-> msg]

\* The pair without "except HTTPException: raise".
get_workflow_except_catch_all(e) ==
    Answer(HTTP_500_INTERNAL_SERVER_ERROR, "Database error", e.text)

get_workflow_except(e) ==
    IF e.http THEN Answer(e.status, e.text, "")
    ELSE Answer(HTTP_500_INTERNAL_SERVER_ERROR, "Database error", e.text)

create_field_with_prompt_except(e) ==
    IF e.http THEN Answer(e.status, e.text, "")
    ELSE IF MentionsDuplicateKey(e.text)
    THEN Answer(HTTP_409_CONFLICT,
                "A field with this name already exists in this workflow", "")
    ELSE Answer(HTTP_500_INTERNAL_SERVER_ERROR, "Database error", e.text)

execute_workflow_except(e) ==
    IF e.http THEN Answer(e.status, e.text, "")
    ELSE Answer(HTTP_500_INTERNAL_SERVER_ERROR,
                "Unexpected error during workflow execution", e.text)

Except(q, e) ==
    Respond(q, CASE q.kind = "get_workflow" -> get_workflow_except(e)
                 [] q.kind = "create_field_with_prompt" ->
                        create_field_with_prompt_except(e)
                 [] OTHER -> execute_workflow_except(e))

\* The handlers' first lines: uuid.UUID(workflow_id), ValueError -> 400.
ParseWorkflowId(q, next) ==
    IF UUIDParses(q.in.workflow_id)
    THEN [q EXCEPT !.workflow_uuid = UUIDValue(q.in.workflow_id), !.pc = next]
    ELSE Except(q, HTTPExc(HTTP_400_BAD_REQUEST, "Invalid workflow ID format"))

\* select * from workflows where id = str(workflow_uuid); empty -> 404.
LookupWorkflow(q, o, next) ==
    IF o = "raise" THEN Except(Called(q), OtherExc(ConnectionError))
    ELSE LET found == SelectWorkflows(UUIDStr(q.workflow_uuid))
             q1 == [Called(q) EXCEPT !.workflow_result = found]
         IN IF found = <<>>
            THEN Except(q1, HTTPExc(HTTP_404_NOT_FOUND, "Workflow not found"))
            ELSE [q1 EXCEPT !.pc = next]

(***************************************************************************)
(* GET /workflows/{workflow_id}  (get_workflow)                            *)
(***************************************************************************)
ReceiveGetWorkflow(r, ids) ==
    /\ req[r].pc = "idle"
    /\ \E t \in ids :
         Put(r, ParseWorkflowId([Arrive(r, "get_workflow") EXCEPT
                                     !.in.workflow_id = t], "gw_lookup"))
    /\ UNCHANGED <<store, apiKey>>

GetWorkflowLookup(r) ==
    /\ req[r].pc = "gw_lookup"
    /\ \E o \in ReadOutcomes : Put(r, LookupWorkflow(req[r], o, "gw_fields"))
    /\ UNCHANGED <<store, apiKey>>

GetWorkflowFields(r) ==
    /\ req[r].pc = "gw_fields"
    /\ \E o \in ReadOutcomes :
         LET q == Called(req[r]) IN
         IF o = "raise" THEN Put(r, Except(q, OtherExc(ConnectionError)))
         ELSE LET got == SelectFields(UUIDStr(q.workflow_uuid)) IN
              IF got = <<>>
              THEN Put(r, Respond([q EXCEPT !.flds = got], Answer(HTTP_200_OK, "", "")))
              ELSE Put(r, [q EXCEPT !.flds = got, !.i = 1, !.pc = "gw_prompts"])
    /\ UNCHANGED <<store, apiKey>>

GetWorkflowPrompts(r) ==
    /\ req[r].pc = "gw_prompts"
    /\ \E o \in ReadOutcomes :
         LET q == Called(req[r]) IN
         IF o = "raise" THEN Put(r, Except(q, OtherExc(ConnectionError)))
         ELSE LET field_data == q.flds[q.i]
                  got == SelectPrompts(field_data.id)
                  q1 == [q EXCEPT !.tree = Append(@, [id |-> field_data.id,
                                                       prompts |-> got]),
                                  !.i = @ + 1]
              IN IF q1.i > Len(q1.flds)
                 THEN Put(r, Respond(q1, Answer(HTTP_200_OK, "", "")))
                 ELSE Put(r, q1)
    /\ UNCHANGED <<store, apiKey>>

(***************************************************************************)
(* POST /workflows/{workflow_id}/fields  (create_field_with_prompt)        *)
(***************************************************************************)
ReceiveCreateField(r, ins) ==
    /\ req[r].pc = "idle"
    /\ \E in \in ins :
         LET q == [Arrive(r, "create_field_with_prompt") EXCEPT !.in = in] IN
         IF FieldCreateValid(in) /\ PromptCreateValid(in)
         THEN Put(r, ParseWorkflowId(q, "cf_lookup"))
         ELSE Put(r, Respond(q, Invalid))
    /\ UNCHANGED <<store, apiKey>>

\* Lines 165-170: field_data.workflow_id != workflow_uuid -> 400.
CheckBodyWorkflowId(q) ==
    IF q.pc = "done" THEN q
    ELSE IF UUIDValue(q.in.body_workflow_id) # q.workflow_uuid
    THEN Except(q, HTTPExc(HTTP_400_BAD_REQUEST,
                           "Field workflow_id must match the URL workflow_id"))
    ELSE q

CreateFieldLookup(r) ==
    /\ req[r].pc = "cf_lookup"
    /\ \E o \in ReadOutcomes :
         Put(r, CheckBodyWorkflowId(LookupWorkflow(req[r], o, "cf_insert_field")))
    /\ UNCHANGED <<store, apiKey>>

\* Lines 188-193: prompt_data.field_id != uuid.UUID(field_id) -> 400.
CheckPromptFieldId(q) ==
    IF UUIDValue(q.in.prompt_field_id) # UUIDValue(q.field_id)
    THEN Except(q, HTTPExc(HTTP_400_BAD_REQUEST,
                           "Prompt field_id must match the created field ID"))
    ELSE [q EXCEPT !.pc = "cf_insert_prompt"]

CreateFieldInsertField(r) ==
    /\ req[r].pc = "cf_insert_field"
    /\ LET q == Called(req[r])
           wf == UUIDStr(q.workflow_uuid)
           name == Strip(q.in.name)
       IN \/ \E o \in {"raise", "empty"} :
               /\ Put(r, Except(q, IF o = "raise" THEN OtherExc(ConnectionError)
                                   ELSE HTTPExc(HTTP_500_INTERNAL_SERVER_ERROR,
                                                "Failed to create field")))
               /\ UNCHANGED <<fields, fieldSeq>>
          \/ /\ FieldNameTaken(wf, name)
             /\ Put(r, Except(q, OtherExc(DuplicateKeyError)))
             /\ UNCHANGED <<fields, fieldSeq>>
          \/ /\ fieldSeq' = fieldSeq + 1
             /\ fields' = Append(fields, FieldRow(fieldSeq', wf, name, q.in.data_type))
             /\ Put(r, CheckPromptFieldId([q EXCEPT !.field_id = UUIDStr(fieldSeq')]))
    /\ UNCHANGED <<workflows, prompts, apiKey>>

CreateFieldInsertPrompt(r) ==
    /\ req[r].pc = "cf_insert_prompt"
    /\ LET q == Called(req[r]) IN
          \/ /\ Put(r, Except(q, OtherExc(ConnectionError)))
             /\ UNCHANGED prompts
          \/ /\ Put(r, [q EXCEPT !.pc = "cf_delete"])
             /\ UNCHANGED prompts
          \/ LET row == PromptRow(Len(prompts) + 1, q.field_id,
                                  Strip(q.in.prompt_template))
             IN /\ prompts' = Append(prompts, row)
                /\ Put(r, Respond([q EXCEPT !.prompts_result = <<row>>],
                                  Answer(HTTP_201_CREATED, "", "")))
    /\ UNCHANGED <<workflows, fields, fieldSeq, apiKey>>

\* Lines 201-207: the prompt insert returned no row; delete the field, 500.
CreateFieldDelete(r) ==
    /\ req[r].pc = "cf_delete"
    /\ LET q == Called(req[r]) IN
          \/ /\ Put(r, Except(q, OtherExc(ConnectionError)))
             /\ UNCHANGED fields
          \/ /\ fields' = DeleteField(q.field_id)
             /\ Put(r, Except(q, HTTPExc(HTTP_500_INTERNAL_SERVER_ERROR,
                                         "Failed to create prompt")))
    /\ UNCHANGED <<workflows, prompts, fieldSeq, apiKey>>

(***************************************************************************)
(* src/services.py: execute_prompt.  The generation API either fails (an   *)
(* API error, which includes its timeout) or answers with a message whose  *)
(* content may be missing.                                                 *)
(***************************************************************************)
ApiFailure(k) == [kind |-> k, has_content |-> FALSE, content |-> <<>>]
ApiNoContent == [kind |-> "response", has_content |-> FALSE, content |-> <<>>]
ApiContent(c) == [kind |-> "response", has_content |-> TRUE, content |-> c]

\* Without a key execute_prompt raises before it calls the API.
ApiNotCalled == ApiFailure("not called")

ApiOutcomes ==
    {ApiFailure("APIError"), ApiFailure("APITimeoutError"), ApiNoContent,
     ApiContent(<<>>), ApiContent(<<" ">>), ApiContent(<<"o">>),
     ApiContent(<<" ", "o">>)}

\* f"{prompt_template}\n\nUser Input: {user_input}"
combined_prompt(prompt_template, user_input) ==
    prompt_template \o <<"\n", "\n", "User Input: ">> \o user_input

Raised(msg) == [raised |-> TRUE, value |-> <<>>, error |-> msg]
Returned(v) == [raised |-> FALSE, value |-> v, error |-> ""]

\* haveKey: os.getenv("OPENAI_API_KEY"); out: what the API call does.
execute_prompt(haveKey, out) ==
    IF ~haveKey
    THEN Raised("OPENAI_API_KEY environment variable is required")
    ELSE IF out.kind # "response"
    THEN Raised("OpenAI API error")
    ELSE IF ~out.has_content
    \* None.strip(): AttributeError, re-raised by "except Exception".
    THEN Raised("Unexpected error during prompt execution")
    ELSE Returned(Strip(out.content))

(***************************************************************************)
(* POST /workflows/{workflow_id}/execute  (execute_workflow)               *)
(***************************************************************************)
NoMessage == "None"

FieldExecutionResult(field, tmpl, resp, ok, msg) ==
    [field_id |-> field.id, field_name |-> field.name,
     data_type |-> field.data_type, prompt_template |-> tmpl,
     ai_response |-> resp, execution_success |-> ok, error_message |-> msg]

ReceiveExecute(r, ids, inputs) ==
    /\ req[r].pc = "idle"
    /\ \E t \in ids, u \in inputs :
         LET q == [Arrive(r, "execute_workflow") EXCEPT
                       !.in.workflow_id = t, !.in.user_input = u] IN
         IF WorkflowExecutionRequestValid(q.in)
         THEN Put(r, ParseWorkflowId(q, "ex_lookup"))
         ELSE Put(r, Respond(q, Invalid))
    /\ UNCHANGED <<store, apiKey>>

ExecuteLookup(r) ==
    /\ req[r].pc = "ex_lookup"
    /\ \E o \in ReadOutcomes : Put(r, LookupWorkflow(req[r], o, "ex_fields"))
    /\ UNCHANGED <<store, apiKey>>

ExecuteFields(r) ==
    /\ req[r].pc = "ex_fields"
    /\ \E o \in ReadOutcomes :
         LET q == Called(req[r]) IN
         IF o = "raise" THEN Put(r, Except(q, OtherExc(ConnectionError)))
         ELSE LET got == SelectFields(UUIDStr(q.workflow_uuid)) IN
              IF got = <<>>
              THEN Put(r, Except(q, HTTPExc(HTTP_404_NOT_FOUND,
                                            "No fields found for this workflow")))
              ELSE Put(r, [q EXCEPT !.flds = got, !.i = 1, !.pc = "ex_prompts"])
    /\ UNCHANGED <<store, apiKey>>

\* The response built with total_fields taken from the generation calls made
\* instead of len(fields).
NextFieldTotalGenerated(q) ==
    IF q.i + 1 > Len(q.flds)
    THEN Respond([q EXCEPT !.i = @ + 1, !.total_fields = Len(q.generate_calls)],
                 Answer(HTTP_200_OK, "", ""))
    ELSE [q EXCEPT !.i = @ + 1, !.pc = "ex_prompts"]

\* The end of one loop iteration: the next field, or lines 341-353.
NextField(q) ==
    IF q.i + 1 > Len(q.flds)
    THEN Respond([q EXCEPT !.i = @ + 1, !.total_fields = Len(q.flds)],
                 Answer(HTTP_200_OK, "", ""))
    ELSE [q EXCEPT !.i = @ + 1, !.pc = "ex_prompts"]

\* Variants of the three recording branches, each with one slip.
RecordNoPromptsRaises(q) ==
    Except(q, HTTPExc(HTTP_404_NOT_FOUND, "No prompts found for this field"))

RecordNoPromptsSkips(q) == NextField(q)

RecordSuccessUncounted(q, ai_response) ==
    NextField([q EXCEPT
        !.field_results = Append(@, FieldExecutionResult(q.flds[q.i],
                                     q.prompts_result[1].prompt_template,
                                     ai_response, TRUE, NoMessage))])

RecordFailureAborts(q, msg) == Except(q, OtherExc(msg))

\* Lines 290-303.
RecordNoPrompts(q) ==
    NextField([q EXCEPT
        !.field_results = Append(@, FieldExecutionResult(q.flds[q.i], <<>>, <<>>,
                                     FALSE, "No prompts found for this field")),
        !.failed_executions = @ + 1])

\* The success branch putting its result at the head of the list.
RecordSuccessPrepended(q, ai_response) ==
    NextField([q EXCEPT
        !.field_results = <<FieldExecutionResult(q.flds[q.i],
                                 q.prompts_result[1].prompt_template,
                                 ai_response, TRUE, NoMessage)>> \o @,
        !.successful_executions = @ + 1])

\* Lines 315-325.
RecordSuccess(q, ai_response) ==
    NextField([q EXCEPT
        !.field_results = Append(@, FieldExecutionResult(q.flds[q.i],
                                     q.prompts_result[1].prompt_template,
                                     ai_response, TRUE, NoMessage)),
        !.successful_executions = @ + 1])

\* The except branch calling execute_prompt once more before giving up.
RecordFailureRetries(q, msg) ==
    IF Len(q.generate_calls) <= Len(q.field_results) + 1
    THEN [q EXCEPT !.pc = "ex_generate"]
    ELSE NextField([q EXCEPT
             !.field_results = Append(@, FieldExecutionResult(q.flds[q.i],
                                          q.prompts_result[1].prompt_template,
                                          <<>>, FALSE, msg)),
             !.failed_executions = @ + 1])

\* Lines 327-339.
RecordFailure(q, msg) ==
    NextField([q EXCEPT
        !.field_results = Append(@, FieldExecutionResult(q.flds[q.i],
                                     q.prompts_result[1].prompt_template,
                                     <<>>, FALSE, msg)),
        !.failed_executions = @ + 1])

ExecutePrompts(r) ==
    /\ req[r].pc = "ex_prompts"
    /\ \E o \in ReadOutcomes :
         LET q == Called(req[r]) IN
         IF o = "raise" THEN Put(r, Except(q, OtherExc(ConnectionError)))
         ELSE LET got == SelectPrompts(q.flds[q.i].id)
                  q1 == [q EXCEPT !.prompts_result = got,
                                  !.prompt_counts = Append(@, Len(got))]
              IN IF got = <<>>
                 THEN Put(r, RecordNoPrompts(q1))
                 ELSE Put(r, [q1 EXCEPT !.pc = "ex_generate"])
    /\ UNCHANGED <<store, apiKey>>

ExecuteGenerate(r) ==
    /\ req[r].pc = "ex_generate"
    /\ \E out \in (IF apiKey THEN ApiOutcomes ELSE {ApiNotCalled}) :
         LET prompt == req[r].prompts_result[1]
             q == [req[r] EXCEPT !.generate_calls =
                       Append(@, [field_id |-> req[r].flds[req[r].i].id,
                                  prompt |-> combined_prompt(prompt.prompt_template,
                                                             Strip(req[r].in.user_input)),
                                  api |-> out])]
             res == execute_prompt(apiKey, out)
         IN IF res.raised
            THEN Put(r, RecordFailure(q, res.error))
            ELSE Put(r, RecordSuccess(q, res.value))
    /\ UNCHANGED <<store, apiKey>>

(***************************************************************************)
(* The requests the model sends.                                           *)
(***************************************************************************)
Garbage == [form |-> "garbage", val |-> 0]
Braced(u) == [form |-> "braced", val |-> u]

NameInputs == {<<"a">>, <<"a", " ">>, <<"b">>, <<" ">>, <<>>}

IdInputs == {Garbage, Canon(1), Braced(1), Canon(2)}

DataTypeInputs ==
    {valid_types[k] : k \in 1..Len(valid_types)} \cup {"Text", "integer"}

FieldInput(p, n, w, d, g, t) ==
    [workflow_id |-> p, name |-> n, body_workflow_id |-> w, data_type |-> d,
     prompt_field_id |-> g, prompt_template |-> t, user_input |-> <<>>]

\* The client has to name the id of the field the store is about to create.
FieldIdGuesses == {Canon(k) : k \in 1..(MaxFields + 1)}

FieldInputs ==
    {FieldInput(p, n, w, d, g, t) :
        p \in IdInputs, n \in {<<"f">>, <<" ">>}, w \in {Canon(1), Canon(2), Garbage},
        d \in DataTypeInputs, g \in FieldIdGuesses, t \in {<<"t", " ">>, <<" ">>}}

UserInputs == {<<"u">>, <<" ">>}

\* The requests of the concurrent specification: well-formed ones, against
\* the first workflow.
FewNames == {<<"a">>, <<"a", " ">>}

FewIds == {Canon(1)}

FewFieldInputs ==
    {FieldInput(Canon(1), <<"f">>, Canon(1), "text", g, <<"t">>) :
        g \in {Canon(1), Canon(2)}}

(***************************************************************************)
(* The store when the process starts: empty, or one workflow whose fields  *)
(* carry zero or more prompts each.                                        *)
(***************************************************************************)
Repeat(c, n) == [x \in 1..n |-> c]

InitFields(k) ==
    [j \in 1..k |-> FieldRow(j, UUIDStr(1), Repeat("f", j),
                             valid_types[((j - 1) % Len(valid_types)) + 1])]

RECURSIVE InitPrompts(_, _)
InitPrompts(c, j) ==
    IF j = 0 THEN <<>>
    ELSE LET prev == InitPrompts(c, j - 1) IN
         prev \o [x \in 1..c[j] |-> PromptRow(Len(prev) + x, UUIDStr(j), Repeat("t", x))]

InitStore(maxFields, maxPrompts) ==
    \/ /\ workflows = <<>>
       /\ fields = <<>>
       /\ prompts = <<>>
       /\ fieldSeq = 0
    \/ /\ workflows = <<WorkflowRow(1, <<"a">>)>>
       /\ \E k \in 0..maxFields : \E c \in [1..k -> 0..maxPrompts] :
            /\ fields = InitFields(k)
            /\ prompts = InitPrompts(c, k)
            /\ fieldSeq = k

(***************************************************************************)
(* Spec: one request of any kind, with every input of the sets above,      *)
(* against every initial store.                                            *)
(***************************************************************************)
Init ==
    /\ InitStore(MaxFields, MaxPrompts)
    /\ apiKey \in BOOLEAN
    /\ req = [r \in Requests |-> Fresh]

Next ==
    \/ ReceiveCreateWorkflow(1, NameInputs)
    \/ CreateWorkflowInsert(1)
    \/ ReceiveGetWorkflow(1, IdInputs)
    \/ GetWorkflowLookup(1)
    \/ GetWorkflowFields(1)
    \/ GetWorkflowPrompts(1)
    \/ ReceiveCreateField(1, FieldInputs)
    \/ CreateFieldLookup(1)
    \/ CreateFieldInsertField(1)
    \/ CreateFieldInsertPrompt(1)
    \/ CreateFieldDelete(1)
    \/ ReceiveExecute(1, IdInputs, UserInputs)
    \/ ExecuteLookup(1)
    \/ ExecuteFields(1)
    \/ ExecutePrompts(1)
    \/ ExecuteGenerate(1)

Spec == Init /\ [][Next]_vars

(***************************************************************************)
(* SpecConcurrent: NumRequests requests in flight at once, interleaved at  *)
(* every store round trip and generation call.                             *)
(***************************************************************************)
InitConcurrent ==
    /\ InitStore(1, 1)
    /\ apiKey = TRUE
    /\ req = [r \in Requests |-> Fresh]

NextConcurrent ==
    \E r \in Requests :
        \/ ReceiveCreateWorkflow(r, FewNames)
        \/ CreateWorkflowInsert(r)
        \/ ReceiveGetWorkflow(r, FewIds)
        \/ GetWorkflowLookup(r)
        \/ GetWorkflowFields(r)
        \/ GetWorkflowPrompts(r)
        \/ ReceiveCreateField(r, FewFieldInputs)
        \/ CreateFieldLookup(r)
        \/ CreateFieldInsertField(r)
        \/ CreateFieldInsertPrompt(r)
        \/ CreateFieldDelete(r)
        \/ ReceiveExecute(r, FewIds, {<<"u">>})
        \/ ExecuteLookup(r)
        \/ ExecuteFields(r)
        \/ ExecutePrompts(r)
        \/ ExecuteGenerate(r)

SpecConcurrent == InitConcurrent /\ [][NextConcurrent]_vars

(***************************************************************************)
(* Properties.                                                             *)
(***************************************************************************)
IsExecute(q) == q.kind = "execute_workflow"

Ids(rows) == {rows[k].id : k \in 1..Len(rows)}

IsBlank(text) == \A x \in 1..Len(text) : text[x] = " "

\* The generation call whose outcome makes execute_prompt raise.
GenerationFails(call) == execute_prompt(apiKey, call.api).raised

\* C1: in execute_workflow a generation failure never aborts the batch.  The
\* step that receives a failed generation appends one result and goes on to
\* the next field, or, after the last field, answers 200; and every 200
\* response carries one result per field returned by the store, in order,
\* also for the fields that follow a failed one.
C1_FailureDoesNotAbort ==
    /\ [][\A r \in Requests :
            ( /\ req[r].pc = "ex_generate"
              /\ req'[r] # req[r]
              /\ GenerationFails(req'[r].generate_calls[Len(req'[r].generate_calls)]) )
            => /\ Len(req'[r].field_results) = Len(req[r].field_results) + 1
               /\ ~req'[r].field_results[Len(req'[r].field_results)].execution_success
               /\ \/ req'[r].pc = "ex_prompts" /\ req'[r].i = req[r].i + 1
                  \/ /\ req'[r].pc = "done"
                     /\ req'[r].status = HTTP_200_OK
                     /\ req[r].i = Len(req[r].flds)]_vars
    /\ [](\A r \in Requests :
            (IsExecute(req[r]) /\ req[r].status = HTTP_200_OK)
            => /\ Len(req[r].field_results) = Len(req[r].flds)
               /\ \A k \in 1..Len(req[r].flds) :
                    req[r].field_results[k].field_id = req[r].flds[k].id)

\* A 200 response whose first field failed in generation and whose second
\* field succeeded.
C1_Witness ==
    \E r \in Requests :
        /\ IsExecute(req[r]) /\ req[r].status = HTTP_200_OK
        /\ Len(req[r].field_results) >= 2
        /\ Len(req[r].generate_calls) >= 2
        /\ GenerationFails(req[r].generate_calls[1])
        /\ ~req[r].field_results[1].execution_success
        /\ req[r].field_results[2].execution_success

\* C3 as stated: once execute_workflow has found the workflow and a non-empty
\* field list it always answers 200, whatever fails inside the loop.
C3_LoopAlwaysAnswers200 ==
    \A r \in Requests :
        (IsExecute(req[r]) /\ req[r].pc = "done" /\ req[r].flds # <<>>)
        => req[r].status = HTTP_200_OK

\* C3, amended: once execute_workflow has found the workflow and a non-empty
\* field list, it answers 200 with one result per field unless the store
\* round trip that fetches a field's prompts raises, which is answered 500;
\* a failed generation or a field without prompts never yields a non-200.
C3_LoopAnswers200UnlessStoreRaises ==
    \A r \in Requests :
        (IsExecute(req[r]) /\ req[r].pc = "done" /\ req[r].flds # <<>>)
        => \/ /\ req[r].status = HTTP_200_OK
              /\ Len(req[r].field_results) = Len(req[r].flds)
           \/ /\ req[r].status = HTTP_500_INTERNAL_SERVER_ERROR
              /\ req[r].detail = "Unexpected error during workflow execution"
              /\ req[r].cause = ConnectionError
              \* the last round trip is a prompt fetch that got no answer,
              \* and every answered one has its result
              /\ req[r].store_calls = Len(req[r].prompt_counts) + 3
              /\ Len(req[r].field_results) = Len(req[r].prompt_counts)

\* A 500 from inside the loop, after a field's failed generation had been
\* recorded.
C3_Witness ==
    \E r \in Requests :
        /\ IsExecute(req[r]) /\ req[r].pc = "done"
        /\ req[r].status = HTTP_500_INTERNAL_SERVER_ERROR
        /\ Len(req[r].field_results) >= 1
        /\ Len(req[r].generate_calls) >= 1
        /\ GenerationFails(req[r].generate_calls[1])

\* C5: when the store returns N >= 1 fields, each with exactly one prompt,
\* and every execute_prompt call returns, the response is 200 with
\* total_fields = successful_executions = N, failed_executions = 0 and N
\* results that all have execution_success true.
C5_AllFieldsSucceed ==
    \A r \in Requests :
        LET q == req[r]
            N == Len(q.flds)
        IN ( /\ IsExecute(q) /\ N >= 1
             /\ Len(q.prompt_counts) = N
             /\ \A k \in 1..N : q.prompt_counts[k] = 1
             /\ Len(q.generate_calls) = N
             /\ \A k \in 1..N : ~GenerationFails(q.generate_calls[k]) )
           => /\ q.pc = "done" /\ q.status = HTTP_200_OK
              /\ q.total_fields = N
              /\ q.successful_executions = N
              /\ q.failed_executions = 0
              /\ Len(q.field_results) = N
              /\ \A k \in 1..N : q.field_results[k].execution_success

C5_Witness ==
    \E r \in Requests :
        LET q == req[r] IN
        /\ IsExecute(q) /\ Len(q.flds) >= 2
        /\ q.prompt_counts = [k \in 1..Len(q.flds) |-> 1]
        /\ Len(q.generate_calls) = Len(q.flds)
        /\ \A k \in 1..Len(q.flds) : ~GenerationFails(q.generate_calls[k])
        /\ q.successful_executions = Len(q.flds)

\* C6: a field for which the store returns no prompt gets a failed result
\* with error_message "No prompts found for this field" and no generation
\* call; it does not end the request; and in the 200 response every field
\* that had a prompt has had execute_prompt invoked, wherever the prompt-less
\* field stands in the list.
C6_PromptlessFieldIsSkipped ==
    \A r \in Requests :
        LET q == req[r] IN
        IsExecute(q) =>
          /\ \A k \in 1..Len(q.prompt_counts) :
               q.prompt_counts[k] = 0 =>
                 /\ k <= Len(q.field_results)
                 /\ q.field_results[k].field_id = q.flds[k].id
                 /\ ~q.field_results[k].execution_success
                 /\ q.field_results[k].error_message = "No prompts found for this field"
                 /\ q.field_results[k].ai_response = <<>>
                 /\ \A c \in 1..Len(q.generate_calls) :
                      q.generate_calls[c].field_id # q.flds[k].id
          /\ (q.pc = "done" /\ q.status # HTTP_200_OK)
               => Len(q.prompt_counts) = Len(q.field_results)
          /\ q.status = HTTP_200_OK =>
               \A k \in 1..Len(q.flds) :
                 q.prompt_counts[k] > 0 =>
                   \E c \in 1..Len(q.generate_calls) :
                     q.generate_calls[c].field_id = q.flds[k].id

\* The first field has no prompt, the second has one and was generated.
C6_Witness ==
    \E r \in Requests :
        LET q == req[r] IN
        /\ IsExecute(q) /\ q.status = HTTP_200_OK
        /\ Len(q.flds) >= 2
        /\ q.prompt_counts[1] = 0 /\ q.prompt_counts[2] > 0
        /\ Len(q.generate_calls) = 1
        /\ q.generate_calls[1].field_id = q.flds[2].id

\* C7 as stated: execute_prompt raises, and the field is recorded as failed,
\* whenever the generation API errors, times out or returns no text (a
\* missing content, an empty string or a whitespace-only string); a
\* successful result is never empty.
C7_NoTextIsAFailure ==
    \A r \in Requests :
        \A c \in 1..Len(req[r].generate_calls) :
            LET call == req[r].generate_calls[c]
                noText == \/ call.api.kind # "response"
                          \/ ~call.api.has_content
                          \/ IsBlank(call.api.content)
            IN \A k \in 1..Len(req[r].field_results) :
                 LET res == req[r].field_results[k] IN
                 res.field_id = call.field_id =>
                   /\ noText => ~res.execution_success
                   /\ res.execution_success => res.ai_response # <<>>

IsCreateField(q) == q.kind = "create_field_with_prompt"

\* The request inserted a field and did not answer 201.
FailedAfterFieldInsert(q) ==
    /\ IsCreateField(q) /\ q.pc = "done"
    /\ q.field_id # NoText
    /\ q.status # HTTP_201_CREATED

\* The compensating delete was issued and raised.
DeleteRaised(q) == q.store_calls = 4 /\ q.cause = ConnectionError

\* C2 as stated: when create_field_with_prompt has inserted the field and
\* then fails at the prompt step (the prompt insert returns no row or raises,
\* or the prompt's field_id check rejects the request) and the store accepts
\* deletes, a get_workflow that arrives later does not see that field.
C2_FailedCreateLeavesNoField ==
    \A r1 \in Requests, r2 \in Requests :
        ( /\ FailedAfterFieldInsert(req[r1])
          /\ ~DeleteRaised(req[r1])
          /\ req[r2].kind = "get_workflow"
          /\ r1 \in req[r2].after )
        => req[r1].field_id \notin Ids(req[r2].flds)

\* C4 as stated: a create_field_with_prompt request rejected with 400 or 404
\* by one of its checks has written nothing: no row of the fields or prompts
\* table comes from it.
C4_RejectedRequestWroteNothing ==
    \A r \in Requests :
        ( /\ IsCreateField(req[r]) /\ req[r].pc = "done"
          /\ req[r].status \in {HTTP_400_BAD_REQUEST, HTTP_404_NOT_FOUND} )
        => /\ req[r].field_id = NoText
           /\ req[r].store_calls <= 1

\* C8: a create_workflow whose trimmed name is the name of a stored workflow
\* is answered 409 (500 only when the store call itself fails) and inserts
\* nothing; no two stored workflows share a name; and of two create_workflow
\* requests with the same trimmed name at most one is answered 201, while a
\* 409 is only given for a name that is stored.
C8_WorkflowNamesUnique ==
    /\ [](\A a \in 1..Len(workflows), b \in 1..Len(workflows) :
            a # b => workflows[a].name # workflows[b].name)
    /\ [][\A r \in Requests :
            ( /\ req[r].pc = "cw_insert"
              /\ req'[r] # req[r]
              /\ \E k \in 1..Len(workflows) :
                   workflows[k].name = Strip(req[r].in.name) )
            => /\ workflows' = workflows
               /\ \/ req'[r].status = HTTP_409_CONFLICT
                  \/ /\ req'[r].status = HTTP_500_INTERNAL_SERVER_ERROR
                     /\ req'[r].cause = ConnectionError]_vars
    /\ [](\A r1 \in Requests, r2 \in Requests :
            ( /\ r1 # r2
              /\ req[r1].kind = "create_workflow" /\ req[r1].pc = "done"
              /\ req[r2].kind = "create_workflow" /\ req[r2].pc = "done"
              /\ Strip(req[r1].in.name) = Strip(req[r2].in.name) )
            => /\ ~(req[r1].status = HTTP_201_CREATED /\ req[r2].status = HTTP_201_CREATED)
               /\ req[r1].status \in {HTTP_201_CREATED, HTTP_409_CONFLICT}
                    => \E k \in 1..Len(workflows) :
                         workflows[k].name = Strip(req[r1].in.name)
               /\ ( /\ req[r1].status = HTTP_409_CONFLICT
                    /\ req[r2].status = HTTP_409_CONFLICT )
                    => \E k \in 1..Len(workflows) :
                         /\ workflows[k].name = Strip(req[r1].in.name)
                         /\ workflows[k].id \notin
                              Ids(req[r1].workflow_result) \cup Ids(req[r2].workflow_result))

\* Two requests whose names differ only by trailing space, both in flight
\* before either inserted: one is answered 201, the other 409.
C8_Witness ==
    \E r1 \in Requests, r2 \in Requests :
        /\ req[r1].kind = "create_workflow" /\ req[r2].kind = "create_workflow"
        /\ req[r1].in.name = <<"a">> /\ req[r2].in.name = <<"a", " ">>
        /\ req[r1].after = {} /\ req[r2].after = {}
        /\ req[r1].status = HTTP_201_CREATED
        /\ req[r2].status = HTTP_409_CONFLICT

\* C9: a field creation request whose data_type is not one of text, number,
\* boolean, date, email, url, json is rejected as invalid input before the
\* handler runs, so that no store call is issued and no field or prompt row
\* comes from it; a request whose data_type is one of them is rejected as
\* invalid only for another part of its body.
C9_DataTypeEnumeration ==
    \A r \in Requests :
        LET q == req[r]
            enumerated == q.in.data_type \in
                {"text", "number", "boolean", "date", "email", "url", "json"}
        IN IsCreateField(q) =>
             /\ ~enumerated =>
                  /\ q.pc = "done"
                  /\ q.status = HTTP_422_UNPROCESSABLE_ENTITY
                  /\ q.store_calls = 0
                  /\ q.field_id = NoText /\ q.prompts_result = <<>>
             /\ (enumerated /\ q.status = HTTP_422_UNPROCESSABLE_ENTITY) =>
                  \/ IsBlank(q.in.name)
                  \/ IsBlank(q.in.prompt_template)
                  \/ q.in.body_workflow_id.form = "garbage"
                  \/ q.in.prompt_field_id.form = "garbage"

\* A request that is well-formed but for its data_type, against a stored
\* workflow.
C9_Witness ==
    \E r \in Requests :
        /\ IsCreateField(req[r])
        /\ req[r].in.data_type = "integer"
        /\ req[r].in.name = <<"f">> /\ req[r].in.prompt_template = <<"t", " ">>
        /\ req[r].in.workflow_id = Canon(1) /\ req[r].in.body_workflow_id = Canon(1)
        /\ Len(workflows) = 1
        /\ req[r].status = HTTP_422_UNPROCESSABLE_ENTITY

HasPathId(q) ==
    q.kind \in {"get_workflow", "create_field_with_prompt", "execute_workflow"}

BodyInvalid(q) ==
    \/ IsCreateField(q) /\ ~(FieldCreateValid(q.in) /\ PromptCreateValid(q.in))
    \/ IsExecute(q) /\ ~WorkflowExecutionRequestValid(q.in)

\* C10: get_workflow, create_field_with_prompt and execute_workflow, once
\* invoked (the body, if any, passed its model), answer a workflow id that
\* is not a uuid with 400 and issue no store call, and answer a uuid that
\* matches no stored workflow with 404; neither is answered 500, which is
\* left to a lookup that raises.
C10_BadIdIs400UnknownIdIs404 ==
    \A r \in Requests :
        LET q == req[r] IN
        (HasPathId(q) /\ q.pc = "done" /\ ~BodyInvalid(q)) =>
          /\ q.in.workflow_id.form = "garbage" =>
               /\ q.store_calls = 0
               /\ q.status = HTTP_400_BAD_REQUEST
          /\ ( /\ q.in.workflow_id.form # "garbage"
               /\ \A k \in 1..Len(workflows) :
                    workflows[k].id.val # q.in.workflow_id.val )
             => \/ q.status = HTTP_404_NOT_FOUND /\ q.store_calls = 1
                \/ /\ q.status = HTTP_500_INTERNAL_SERVER_ERROR
                   /\ q.cause = ConnectionError /\ q.store_calls = 1

\* A uuid in its braced spelling that names no stored workflow.
C10_Witness ==
    \E r \in Requests :
        /\ req[r].kind = "get_workflow"
        /\ req[r].in.workflow_id = Braced(1)
        /\ workflows = <<>>
        /\ req[r].status = HTTP_404_NOT_FOUND

RECURSIVE CountSuccess(_, _)
\* The number of results whose execution_success is ok.
CountSuccess(results, ok) ==
    IF results = <<>> THEN 0
    ELSE CountSuccess(Tail(results), ok)
         + (IF Head(results).execution_success = ok THEN 1 ELSE 0)

\* C11: in every 200 response of execute_workflow the counters agree with the
\* result list: successful_executions + failed_executions = total_fields =
\* the length of field_results = the number of fields the store returned,
\* successful_executions is the number of results with execution_success
\* true and failed_executions the number with execution_success false,
\* whatever the mix of prompt-less fields, generation successes and
\* generation failures.
C11_CountersAgreeWithResults ==
    \A r \in Requests :
        LET q == req[r] IN
        (IsExecute(q) /\ q.status = HTTP_200_OK) =>
          /\ q.successful_executions + q.failed_executions = q.total_fields
          /\ q.total_fields = Len(q.field_results)
          /\ q.total_fields = Len(q.flds)
          /\ q.flds = SelectFields(UUIDStr(q.workflow_uuid))
          /\ q.successful_executions = CountSuccess(q.field_results, TRUE)
          /\ q.failed_executions = CountSuccess(q.field_results, FALSE)

\* A 200 response over three fields: one without prompts, one whose
\* generation succeeded and one whose generation failed.
C11_Witness ==
    \E r \in Requests :
        LET q == req[r] IN
        /\ IsExecute(q) /\ q.status = HTTP_200_OK
        /\ Len(q.flds) = 3 /\ Len(q.generate_calls) = 2
        /\ \E k \in 1..3 : q.prompt_counts[k] = 0
        /\ \E c \in 1..2 : GenerationFails(q.generate_calls[c])
        /\ \E c \in 1..2 : ~GenerationFails(q.generate_calls[c])
        /\ q.successful_executions = 1 /\ q.failed_executions = 2

\* The position in the field list of the field with this id (0: none).
IndexOfField(flds, id) ==
    IF \E k \in 1..Len(flds) : flds[k].id = id
    THEN CHOOSE k \in 1..Len(flds) : flds[k].id = id
    ELSE 0

\* C12: execute_workflow processes the fields one at a time in the order the
\* store returned them.  The k-th entry of field_results carries the
\* field_id of the k-th field returned; the loop's position is always the
\* first field without a recorded outcome; and a generation call is only
\* ever issued for that field, so the call for field i+1 is not issued
\* before the outcome of field i has been recorded and the calls follow the
\* field order.
C12_FieldsInStoreOrder ==
    /\ [](\A r \in Requests :
            LET q == req[r] IN
            IsExecute(q) =>
              /\ Len(q.field_results) <= Len(q.flds)
              /\ \A k \in 1..Len(q.field_results) :
                   q.field_results[k].field_id = q.flds[k].id
              /\ q.pc \in {"ex_prompts", "ex_generate"}
                   => q.i = Len(q.field_results) + 1
              /\ \A c \in 1..Len(q.generate_calls) :
                   /\ IndexOfField(q.flds, q.generate_calls[c].field_id)
                        \in 1..Len(q.field_results)
                   /\ \A d \in 1..(c - 1) :
                        IndexOfField(q.flds, q.generate_calls[d].field_id)
                          < IndexOfField(q.flds, q.generate_calls[c].field_id))
    /\ [][\A r \in Requests :
            Len(req'[r].generate_calls) > Len(req[r].generate_calls)
            => /\ req[r].pc = "ex_generate"
               /\ Len(req'[r].generate_calls) = Len(req[r].generate_calls) + 1
               /\ req'[r].generate_calls[Len(req'[r].generate_calls)].field_id
                    = req[r].flds[Len(req[r].field_results) + 1].id
               /\ Len(req'[r].field_results) = Len(req[r].field_results) + 1
               /\ req'[r].field_results[Len(req'[r].field_results)].field_id
                    = req[r].flds[Len(req[r].field_results) + 1].id]_vars

\* Three fields with a prompt each, all generated, answered 200.
C12_Witness ==
    \E r \in Requests :
        LET q == req[r] IN
        /\ IsExecute(q) /\ q.status = HTTP_200_OK
        /\ Len(q.flds) = 3 /\ Len(q.generate_calls) = 3
        /\ \A k \in 1..3 : q.generate_calls[k].field_id = q.flds[k].id
        /\ \A k \in 1..3 : q.field_results[k].field_id = q.flds[k].id
        /\ q.flds[1].id # q.flds[2].id /\ q.flds[2].id # q.flds[3].id

\* The execute_prompt invocations made for the field with this id.
CallsFor(q, id) ==
    {c \in 1..Len(q.generate_calls) : q.generate_calls[c].field_id = id}

\* C13: during one execute_workflow, execute_prompt is invoked at most once
\* per field: exactly once, with the first prompt the store returns for the
\* field and the request's user input, for a field with one or more
\* prompts, and never for a field without prompts; a failed invocation is
\* not repeated, so the invocations never outnumber the fields.
C13_OneGenerationCallPerField ==
    \A r \in Requests :
        LET q == req[r] IN
        IsExecute(q) =>
          /\ Len(q.generate_calls) <= Len(q.flds)
          /\ \A k \in 1..Len(q.flds) : Cardinality(CallsFor(q, q.flds[k].id)) <= 1
          /\ \A c \in 1..Len(q.generate_calls) :
               LET stored == SelectPrompts(q.generate_calls[c].field_id) IN
               /\ stored # <<>>
               /\ q.generate_calls[c].prompt =
                    combined_prompt(stored[1].prompt_template, Strip(q.in.user_input))
          /\ \A k \in 1..Len(q.field_results) :
               Cardinality(CallsFor(q, q.flds[k].id)) =
                 IF q.prompt_counts[k] = 0 THEN 0 ELSE 1

\* A field with two stored prompts whose only generation call failed, in a
\* finished 200 response: the call used the first prompt and was not
\* repeated, and the second prompt was not used.
C13_Witness ==
    \E r \in Requests :
        LET q == req[r] IN
        /\ IsExecute(q) /\ q.status = HTTP_200_OK
        /\ q.prompt_counts[1] = 2
        /\ Len(q.generate_calls) >= 1
        /\ q.generate_calls[1].field_id = q.flds[1].id
        /\ GenerationFails(q.generate_calls[1])
        /\ q.generate_calls[1].prompt =
             combined_prompt(SelectPrompts(q.flds[1].id)[1].prompt_template, <<"u">>)
        /\ SelectPrompts(q.flds[1].id)[2].prompt_template
             # SelectPrompts(q.flds[1].id)[1].prompt_template
        /\ Cardinality(CallsFor(q, q.flds[1].id)) = 1

IsPrefix(s, t) == Len(s) <= Len(t) /\ \A k \in 1..Len(s) : s[k] = t[k]

\* C14: with create_workflow, create_field_with_prompt, get_workflow and
\* execute_workflow requests interleaved at every store round trip, every
\* field row references a stored workflow and every prompt row references a
\* stored field; no step removes or changes a workflow or prompt row; and
\* the only rows removed are fields without a prompt, removed by the
\* compensating delete of the request that inserted them.
C14_RowsReferenceStoredParents ==
    /\ [](/\ \A k \in 1..Len(fields) : fields[k].workflow_id \in Ids(workflows)
          /\ \A k \in 1..Len(prompts) : prompts[k].field_id \in Ids(fields))
    /\ [][/\ IsPrefix(workflows, workflows')
          /\ IsPrefix(prompts, prompts')
          /\ \A k \in 1..Len(fields) :
               fields[k] \notin {fields'[j] : j \in 1..Len(fields')}
               => /\ SelectPrompts(fields[k].id) = <<>>
                  /\ \A j \in 1..Len(prompts') : prompts'[j].field_id # fields[k].id
                  /\ \E r \in Requests :
                       /\ req[r].pc = "cf_delete"
                       /\ req[r].field_id = fields[k].id
                       /\ req'[r].pc = "done"]_vars

\* Two overlapping create_field_with_prompt requests: the prompt insert of
\* one returned no row and its field was deleted, the other was answered
\* 201 and its field and prompt are stored.
C14_Witness ==
    \E r1 \in Requests, r2 \in Requests :
        /\ IsCreateField(req[r1]) /\ IsCreateField(req[r2])
        /\ req[r1].after = {} /\ req[r2].after = {}
        /\ req[r1].pc = "done" /\ req[r1].detail = "Failed to create prompt"
        /\ req[r1].field_id # NoText
        /\ req[r1].field_id \notin Ids(fields)
        /\ req[r2].status = HTTP_201_CREATED
        /\ req[r2].field_id \in Ids(fields)
        /\ SelectPrompts(req[r2].field_id) # <<>>

====
